---- MODULE Spec2Model ----
(***************************************************************************)
(* Model of hx-adl's SQL schema generator (gen-sqlschema.ts):              *)
(* generateSqlSchema collects the structs annotated with DbTable, sorts    *)
(* them by table name, maps every field through getColumnType /            *)
(* getColumnType1 / getForeignKeyRef and writes the create table blocks,   *)
(* the constraints and the trailing sql.                                   *)
(*                                                                         *)
(* Text is modelled by its parts: an identifier is a sequence of one       *)
(* character strings, a column type is a sequence of tokens (the suffix    *)
(* " not null" is the token "not null"), a written statement is a record   *)
(* of the values interpolated into its template.  The per-column comment   *)
(* (typeExprToStringUnscoped, tweakTypeComment, padEnd) is left out.       *)
(* An optional value is <<>> (undefined) or <<v>>.                         *)
(***************************************************************************)
EXTENDS Integers, Sequences, FiniteSets, TLC

VARIABLES
  loadedAdl,     \* result of parseAdl: [modules: sequence of modules]
  dbProfile,     \* params.dbProfile
  pc,            \* position in generateSqlSchema
  dbTables,      \* the table list (line 51)
  constraints,   \* line 78
  allExtraSql,   \* line 79
  out,           \* what has been written to writer
  tIdx,          \* position of the `for(const t of dbTables)` loop
  lines,         \* line 89, of the current table
  fIdx,          \* position of the `for(const f of t.struct.value.fields)` loop
  f,             \* the current field, <<>> before the first
  columnType,    \* line 95: <<>> until getColumnType has returned
  call,          \* the active getColumnType frame, <<>> if none
  frames         \* the typeExpr arguments of the active getColumnType1 frames

vars == <<loadedAdl, dbProfile, pc, dbTables, constraints, allExtraSql, out,
          tIdx, lines, fIdx, f, columnType, call, frames>>

\* Bound on the depth of the getColumnType1 recursion explored.
MaxDepth == 5

Undefined == <<>>

(***************************************************************************)
(* Characters and strings                                                  *)
(***************************************************************************)
UpperChars == <<"A","B","C","D","E","F","G","H","I","J","K","L","M",
                "N","O","P","Q","R","S","T","U","V","W","X","Y","Z">>
LowerChars == <<"a","b","c","d","e","f","g","h","i","j","k","l","m",
                "n","o","p","q","r","s","t","u","v","w","x","y","z">>

IsUpper(c) == \E i \in 1..26 : UpperChars[i] = c
IsLower(c) == \E i \in 1..26 : LowerChars[i] = c
ToLower(c) == IF IsUpper(c)
              THEN LowerChars[CHOOSE i \in 1..26 : UpperChars[i] = c]
              ELSE c

\* UTF-16 code unit of a character (letters and "_")
CharCode(c) == IF IsUpper(c) THEN 64 + (CHOOSE i \in 1..26 : UpperChars[i] = c)
               ELSE IF IsLower(c) THEN 96 + (CHOOSE i \in 1..26 : LowerChars[i] = c)
               ELSE 95

\* s1 < s2 on strings: lexicographic on code units, a proper prefix is smaller
StringLess(s1, s2) ==
  \E k \in 1..(Len(s2)) :
     /\ \A i \in 1..(k-1) : i <= Len(s1) /\ s1[i] = s2[i]
     /\ \/ k = Len(s1) + 1
        \/ k <= Len(s1) /\ CharCode(s1[k]) < CharCode(s2[k])

\* snakeCase of an identifier made of letters: a "_" between a lower case
\* letter and an upper case one, and between an upper case letter and an
\* upper case letter followed by a lower case one; everything lower case.
RECURSIVE SnakeFrom(_, _)
SnakeFrom(s, i) ==
  IF i > Len(s) THEN <<>>
  ELSE LET c == s[i]
           sep == /\ i > 1
                  /\ IsUpper(c)
                  /\ \/ IsLower(s[i-1])
                     \/ IsUpper(s[i-1]) /\ i < Len(s) /\ IsLower(s[i+1])
       IN (IF sep THEN <<"_">> ELSE <<>>) \o <<ToLower(c)>> \o SnakeFrom(s, i+1)

snakeCase(s) == SnakeFrom(s, 1)

(***************************************************************************)
(* Type expressions, scoped names                                          *)
(***************************************************************************)
scopedName(moduleName, name) == [moduleName |-> moduleName, name |-> name]
scopedNamesEqual(sn1, sn2) == sn1.moduleName = sn2.moduleName /\ sn1.name = sn2.name

MAYBE          == scopedName("sys.types", <<"M","a","y","b","e">>)
DB_KEY         == scopedName("common.db", <<"D","b","K","e","y">>)
INSTANT        == scopedName("common", <<"I","n","s","t","a","n","t">>)
LOCAL_DATE     == scopedName("common", <<"L","o","c","a","l","D","a","t","e">>)
LOCAL_DATETIME == scopedName("common", <<"L","o","c","a","l","D","a","t","e","T","i","m","e">>)

Prim(p)       == [typeRef |-> [kind |-> "primitive", value |-> p], parameters |-> <<>>]
PrimOf(p, a)  == [typeRef |-> [kind |-> "primitive", value |-> p], parameters |-> <<a>>]
Ref(sn)       == [typeRef |-> [kind |-> "reference", value |-> sn], parameters |-> <<>>]
RefOf(sn, a)  == [typeRef |-> [kind |-> "reference", value |-> sn], parameters |-> <<a>>]
TParam(n)     == [typeRef |-> [kind |-> "typeParam", value |-> n], parameters |-> <<>>]

(***************************************************************************)
(* Declarations.  A declaration is [name, type_, annotations]; type_.kind  *)
(* is "struct_", "union_", "type_" (alias) or "newtype_".                   *)
(***************************************************************************)
Chars_Aa   == <<"A","a">>
Chars_Ba   == <<"B","a">>
Chars_AaBa == <<"A","a","B","a">>
Chars_aa   == <<"a","a">>

NoAnnotations == [dbTable |-> Undefined, dbColumnName |-> Undefined]

Field(name, typeExpr) == [name |-> name, typeExpr |-> typeExpr, annotations |-> NoAnnotations]
FieldAs(name, typeExpr, col) ==
  [name |-> name, typeExpr |-> typeExpr,
   annotations |-> [dbTable |-> Undefined, dbColumnName |-> <<col>>]]

Decl(name, kind, typeParams, value) ==
  [name |-> name,
   type_ |-> [kind |-> kind, value |-> [typeParams |-> typeParams] @@ value],
   annotations |-> NoAnnotations]

Alias(name, typeParams, typeExpr) == Decl(name, "type_", typeParams, [typeExpr |-> typeExpr])
Newtype(name, typeParams, typeExpr) == Decl(name, "newtype_", typeParams, [typeExpr |-> typeExpr])
Union(name, typeParams, fields) == Decl(name, "union_", typeParams, [fields |-> fields])
Struct(name, fields, dbTable) ==
  [name |-> name,
   type_ |-> [kind |-> "struct_", value |-> [typeParams |-> <<>>, fields |-> fields]],
   annotations |-> [dbTable |-> dbTable, dbColumnName |-> Undefined]]

\* names of the declarations of module "t"
N_Color    == <<"C","o","l","o","r">>
N_Shape    == <<"S","h","a","p","e">>
N_Name     == <<"N","a","m","e">>
N_Name2    == <<"N","a","m","e","B">>
N_Count    == <<"C","o","u","n","t">>
N_Id       == <<"I","d">>
N_OptStr   == <<"O","p","t","S","t","r">>
N_MaybeInt == <<"M","a","y","b","e","I","n","t">>
N_KeyBa    == <<"K","e","y","B","a">>
N_MyTime   == <<"M","y","T","i","m","e">>
N_CycA     == <<"C","y","c","A">>
N_CycB     == <<"C","y","c","B">>

T(n)   == scopedName("t", n)
SN_Aa   == scopedName("m", Chars_Aa)
SN_Ba   == scopedName("m", Chars_Ba)
SN_AaBa == scopedName("m2", Chars_AaBa)

Nullable(a) == PrimOf("Nullable", a)
Maybe(a)    == RefOf(MAYBE, a)
DbKey(a)    == RefOf(DB_KEY, a)

SysTypesModule ==
  [name |-> "sys.types",
   decls |-> << Union(MAYBE.name, <<"T">>,
                      << Field(<<"n","o","t","h","i","n","g">>, Prim("Void")),
                         Field(<<"j","u","s","t">>, TParam("T")) >>) >>]

CommonModule ==
  [name |-> "common",
   decls |-> << Newtype(INSTANT.name, <<>>, Prim("Int64")),
                Newtype(LOCAL_DATE.name, <<>>, Prim("String")),
                Newtype(LOCAL_DATETIME.name, <<>>, Prim("String")) >>]

CommonDbModule ==
  [name |-> "common.db",
   decls |-> << Newtype(DB_KEY.name, <<"T">>, Prim("String")) >>]

TypesModule ==
  [name |-> "t",
   decls |-> <<
     Union(N_Color, <<>>, << Field(<<"r","e","d">>, Prim("Void")),
                             Field(<<"g","r","e","e","n">>, Prim("Void")) >>),
     Union(N_Shape, <<>>, << Field(<<"c","i","r","c","l","e">>, Prim("Double")),
                             Field(<<"n","o","n","e">>, Prim("Void")) >>),
     Alias(N_Name, <<>>, Prim("String")),
     Alias(N_Name2, <<>>, Ref(T(N_Name))),
     Newtype(N_Count, <<>>, Prim("Int32")),
     Alias(N_Id, <<"T">>, TParam("T")),
     Alias(N_OptStr, <<>>, Nullable(Prim("String"))),
     Newtype(N_MaybeInt, <<>>, Maybe(Prim("Int32"))),
     Alias(N_KeyBa, <<>>, DbKey(Ref(SN_Ba))),
     Alias(N_MyTime, <<>>, Ref(INSTANT)),
     Alias(N_CycA, <<>>, Ref(T(N_CycB))),
     Newtype(N_CycB, <<>>, Ref(T(N_CycA))) >>]

\* The DbTable annotation values.  A key the annotation leaves out is given
\* here with the default the generator substitutes (lines 83-87).
DbTableAnn(tableName, withIdPrimaryKey, withPrimaryKey, indexes, uniquenessConstraints, extraSql) ==
  [tableName |-> tableName, withIdPrimaryKey |-> withIdPrimaryKey,
   withPrimaryKey |-> withPrimaryKey, indexes |-> indexes,
   uniquenessConstraints |-> uniquenessConstraints, extraSql |-> extraSql]

F_fA    == <<"f","A">>
F_nm    == <<"n","m">>
F_owner == <<"o","w","n","e","r">>
F_self  == <<"s","e","l","f">>
F_v     == <<"v">>
F_zz    == <<"z","z">>

AnnA == DbTableAnn(Undefined, FALSE, <<F_fA>>, << <<F_fA>>, <<F_nm, F_zz>> >>,
                   << <<F_nm>> >>, <<"sqlA1">>)
AnnB == DbTableAnn(<<Chars_Ba>>, TRUE, <<F_owner>>, <<>>, << <<F_owner, F_self>> >>,
                   <<"sqlB1", "sqlB2">>)
AnnC == DbTableAnn(Undefined, FALSE, <<>>, << <<F_v>> >>, <<>>, <<>>)
AnnC2 == DbTableAnn(<<Chars_aa>>, FALSE, <<>>, << <<F_v>> >>, <<>>, <<>>)

AnnChoicesAa   == {Undefined, <<AnnA>>}
AnnChoicesBa   == {Undefined, <<AnnB>>}
AnnChoicesAaBa == {Undefined, <<AnnC>>, <<AnnC2>>}

StructAa(ann, probe) ==
  Struct(Chars_Aa, << Field(F_fA, probe),
                      FieldAs(F_nm, Prim("String"), <<"n","a","m","e">>) >>, ann)
StructBa(ann) ==
  Struct(Chars_Ba, << Field(F_owner, DbKey(Ref(SN_Aa))),
                      Field(F_self, Nullable(DbKey(Ref(SN_Ba)))) >>, ann)
StructAaBa(ann) ==
  Struct(Chars_AaBa, << Field(F_v, Nullable(Prim("Int32"))) >>, ann)

\* The type expressions tried for the field fA of struct Aa (a list: type
\* expressions of different kinds are never put in one set).
ProbeTypes ==
  << Prim("String"), Prim("Int32"), Prim("Json"), Prim("Bool"), Prim("Double"),
    Prim("Void"), PrimOf("Vector", Prim("String")),
    Nullable(Prim("String")), Nullable(Prim("Int32")), Maybe(Prim("String")),
    Nullable(Nullable(Prim("String"))), Nullable(Maybe(Prim("Bool"))),
    DbKey(Ref(SN_Aa)), DbKey(Ref(SN_Ba)), DbKey(Ref(SN_AaBa)),
    DbKey(Ref(T(N_Color))), DbKey(Prim("String")),
    Nullable(DbKey(Ref(SN_Ba))), Maybe(DbKey(Ref(SN_Aa))), Maybe(DbKey(Ref(SN_AaBa))),
    Ref(INSTANT), Ref(LOCAL_DATE), Ref(LOCAL_DATETIME), Nullable(Ref(INSTANT)),
    Ref(T(N_Color)), Ref(T(N_Shape)), Nullable(Ref(T(N_Color))), Ref(SN_Ba),
    Ref(T(N_Name)), Ref(T(N_Name2)), Ref(T(N_Count)),
    RefOf(T(N_Id), Prim("Int64")), RefOf(T(N_Id), Ref(T(N_Name))),
    Nullable(Ref(T(N_Name2))), Maybe(Ref(T(N_Count))),
    Ref(T(N_OptStr)), Ref(T(N_MaybeInt)), Ref(T(N_KeyBa)),
    RefOf(T(N_Id), Nullable(Prim("Int32"))), RefOf(T(N_Id), DbKey(Ref(SN_Aa))),
    Ref(T(N_MyTime)), Ref(T(N_CycA)), Nullable(Ref(T(N_CycB))) >>

\* A graph parseAdl can produce: the library and type modules, then the
\* modules m and m2 in either order, the structs of m in either order.
LoadedAdl(a, b, c, p, mFirst, aaFirst) ==
  LET m  == [name |-> "m",
             decls |-> IF aaFirst THEN <<StructAa(a, p), StructBa(b)>>
                                  ELSE <<StructBa(b), StructAa(a, p)>>]
      m2 == [name |-> "m2", decls |-> <<StructAaBa(c)>>]
  IN [modules |-> <<SysTypesModule, CommonModule, CommonDbModule, TypesModule>>
                  \o (IF mFirst THEN <<m, m2>> ELSE <<m2, m>>)]

\* forEachDecl: the scoped declarations in enumeration order
RECURSIVE ScopedDeclsOf(_)
ScopedDeclsOf(modules) ==
  IF modules = <<>> THEN <<>>
  ELSE LET m == Head(modules)
       IN [i \in 1..Len(m.decls) |-> [moduleName |-> m.name, decl |-> m.decls[i]]]
          \o ScopedDeclsOf(Tail(modules))

forEachDecl(modules) == ScopedDeclsOf(modules)

\* loadedAdl.resolver
resolver(sn) ==
  LET sds == forEachDecl(loadedAdl.modules)
  IN sds[CHOOSE i \in 1..Len(sds) :
           sds[i].moduleName = sn.moduleName /\ sds[i].decl.name = sn.name]

getAnnotation(annotations, key) ==
  IF key = "DB_TABLE" THEN annotations.dbTable ELSE annotations.dbColumnName

(***************************************************************************)
(* Helpers of util.ts and the adl runtime                                  *)
(***************************************************************************)
\* decodeTypeExpr: a primitive decodes to its own kind (Nullable, Vector ...
\* with the decoded element type), a reference to kind "Reference"
RECURSIVE decodeTypeExpr(_)
decodeTypeExpr(typeExpr) ==
  IF typeExpr.typeRef.kind = "primitive"
  THEN IF typeExpr.parameters = <<>>
       THEN [kind |-> typeExpr.typeRef.value]
       ELSE [kind |-> typeExpr.typeRef.value,
             elemType |-> decodeTypeExpr(typeExpr.parameters[1])]
  ELSE IF typeExpr.typeRef.kind = "reference"
  THEN [kind |-> "Reference", refScopedName |-> typeExpr.typeRef.value,
        parameters |-> [i \in 1..Len(typeExpr.parameters) |->
                          decodeTypeExpr(typeExpr.parameters[i])]]
  ELSE [kind |-> "TypeParam", name |-> typeExpr.typeRef.value]

\* positional substitution of type parameters
RECURSIVE substituteTypeParams(_, _, _)
substituteTypeParams(typeExpr, typeParams, args) ==
  IF /\ typeExpr.typeRef.kind = "typeParam"
     /\ \E i \in 1..Len(typeParams) : typeParams[i] = typeExpr.typeRef.value /\ i <= Len(args)
  THEN args[CHOOSE i \in 1..Len(typeParams) : typeParams[i] = typeExpr.typeRef.value]
  ELSE [typeRef |-> typeExpr.typeRef,
        parameters |-> [i \in 1..Len(typeExpr.parameters) |->
                          substituteTypeParams(typeExpr.parameters[i], typeParams, args)]]

expandKind(typeExpr, kind) ==
  IF typeExpr.typeRef.kind = "reference"
  THEN LET sdecl == resolver(typeExpr.typeRef.value)
       IN IF sdecl.decl.type_.kind = kind
          THEN << substituteTypeParams(sdecl.decl.type_.value.typeExpr,
                                       sdecl.decl.type_.value.typeParams,
                                       typeExpr.parameters) >>
          ELSE Undefined
  ELSE Undefined

expandTypeAlias(typeExpr) == expandKind(typeExpr, "type_")
expandNewType(typeExpr)   == expandKind(typeExpr, "newtype_")

\* isEnum: every field of the union is Void
isEnum(union) ==
  \A i \in 1..Len(union.fields) :
     /\ union.fields[i].typeExpr.typeRef.kind = "primitive"
     /\ union.fields[i].typeExpr.typeRef.value = "Void"

(***************************************************************************)
(* The dialect profiles (lines 263-336)                                    *)
(***************************************************************************)
postgresPrimColumnType(ptype) ==
  CASE ptype = "String" -> "text"
    [] ptype = "Bool"   -> "boolean"
    [] ptype = "Json"   -> "json"
    [] ptype = "Int8"   -> "smallint"
    [] ptype = "Int16"  -> "smallint"
    [] ptype = "Int32"  -> "integer"
    [] ptype = "Int64"  -> "bigint"
    [] ptype = "Word8"  -> "smallint"
    [] ptype = "Word16" -> "smallint"
    [] ptype = "Word32" -> "integer"
    [] ptype = "Word64" -> "bigint"
    [] ptype = "Float"  -> "real"
    [] ptype = "Double" -> "double precision"
    [] OTHER            -> "json"

postgres2PrimColumnType(ptype) ==
  CASE ptype = "String" -> "text"
    [] ptype = "Bool"   -> "boolean"
    [] ptype = "Json"   -> "jsonb"
    [] ptype = "Int8"   -> "smallint"
    [] ptype = "Int16"  -> "smallint"
    [] ptype = "Int32"  -> "integer"
    [] ptype = "Int64"  -> "bigint"
    [] ptype = "Word8"  -> "smallint"
    [] ptype = "Word16" -> "smallint"
    [] ptype = "Word32" -> "integer"
    [] ptype = "Word64" -> "bigint"
    [] ptype = "Float"  -> "real"
    [] ptype = "Double" -> "double precision"
    [] OTHER            -> "jsonb"

mssql2PrimColumnType(ptype) ==
  CASE ptype = "String" -> "nvarchar(max)"
    [] ptype = "Int8"   -> "smallint"
    [] ptype = "Int16"  -> "smallint"
    [] ptype = "Int32"  -> "int"
    [] ptype = "Int64"  -> "bigint"
    [] ptype = "Word8"  -> "smallint"
    [] ptype = "Word16" -> "smallint"
    [] ptype = "Word32" -> "int"
    [] ptype = "Word64" -> "bigint"
    [] ptype = "Float"  -> "float(24)"
    [] ptype = "Double" -> "float(53)"
    [] ptype = "Bool"   -> "bit"
    [] OTHER            -> "nvarchar(max)"

\* the profiles configureCli can select (lines 27-33)
DbProfiles == {"postgresDbProfile", "postgres2DbProfile", "mssql2DbProfile"}

idColumnType(profile) ==
  IF profile = "mssql2DbProfile" THEN "nvchar(64)" ELSE "text"

enumColumnType(profile) ==
  IF profile = "mssql2DbProfile" THEN "nvchar(64)" ELSE "text"

primColumnType(profile, ptype) ==
  CASE profile = "postgresDbProfile"  -> postgresPrimColumnType(ptype)
    [] profile = "postgres2DbProfile" -> postgres2PrimColumnType(ptype)
    [] profile = "mssql2DbProfile"    -> mssql2PrimColumnType(ptype)

(***************************************************************************)
(* Names (lines 168-185)                                                   *)
(***************************************************************************)
getTableName(scopedDecl) ==
  LET ann == getAnnotation(scopedDecl.decl.annotations, "DB_TABLE")
  IN IF ann # Undefined /\ ann[1].tableName # Undefined
     THEN ann[1].tableName[1]
     ELSE snakeCase(scopedDecl.decl.name)

getColumnName(field) ==
  LET ann == getAnnotation(field.annotations, "DB_COLUMN_NAME")
  IN IF ann # Undefined THEN ann[1] ELSE snakeCase(field.name)

(***************************************************************************)
(* The type to column mapper (lines 196-252)                               *)
(***************************************************************************)
\* the test of lines 199-200
IsNullableWrapper(dtype) ==
  \/ dtype.kind = "Nullable"
  \/ dtype.kind = "Reference" /\ scopedNamesEqual(dtype.refScopedName, MAYBE)

\* Expansion without the newtype expansion
Expansion_AliasOnly(typeExpr) == expandTypeAlias(typeExpr)

\* lines 232-234: the alias expansion, else the newtype expansion
Expansion(typeExpr) ==
  IF expandTypeAlias(typeExpr) # Undefined
  THEN expandTypeAlias(typeExpr)
  ELSE expandNewType(typeExpr)

\* One activation of getColumnType1: the string it returns, or the type
\* expression it calls itself with (line 236).
getColumnType1(typeExpr, profile) ==
  LET dtype == decodeTypeExpr(typeExpr)
  IN IF dtype.kind = "Reference"
     THEN LET sdecl == resolver(dtype.refScopedName)
          IN IF scopedNamesEqual(dtype.refScopedName, INSTANT)
             THEN [kind |-> "return", sqltype |-> "timestamp"]
             ELSE IF scopedNamesEqual(dtype.refScopedName, LOCAL_DATE)
             THEN [kind |-> "return", sqltype |-> "date"]
             ELSE IF scopedNamesEqual(dtype.refScopedName, LOCAL_DATETIME)
             THEN [kind |-> "return", sqltype |-> "timestamp"]
             ELSE IF sdecl.decl.type_.kind = "union_" /\ isEnum(sdecl.decl.type_.value)
             THEN [kind |-> "return", sqltype |-> enumColumnType(profile)]
             ELSE IF Expansion(typeExpr) # Undefined
             THEN [kind |-> "call", typeExpr |-> Expansion(typeExpr)[1]]
             ELSE [kind |-> "return", sqltype |-> primColumnType(profile, dtype.kind)]
     ELSE [kind |-> "return", sqltype |-> primColumnType(profile, dtype.kind)]

getForeignKeyRef(typeExpr) ==
  LET dtype == decodeTypeExpr(typeExpr)
  IN IF dtype.kind = "Reference" /\ scopedNamesEqual(dtype.refScopedName, DB_KEY)
     THEN LET param0 == dtype.parameters[1]
          IN IF param0.kind = "Reference"
             THEN << [table |-> getTableName(resolver(param0.refScopedName)),
                      column |-> <<"i","d">>] >>
             ELSE Undefined
     ELSE Undefined

\* getColumnTypeCall passing the wrapper itself on in the nullable branch
getColumnTypeCall_NoUnwrap(typeExpr) ==
  IF IsNullableWrapper(decodeTypeExpr(typeExpr))
  THEN [nullable |-> TRUE, typeExpr |-> typeExpr]
  ELSE [nullable |-> FALSE, typeExpr |-> typeExpr]

\* getColumnTypeCall looking through a type alias before it tests for the
\* nullable wrapper
getColumnTypeCall_ExpandFirst(typeExpr) ==
  LET e == IF expandTypeAlias(typeExpr) # Undefined
           THEN expandTypeAlias(typeExpr)[1] ELSE typeExpr
  IN IF IsNullableWrapper(decodeTypeExpr(e))
     THEN [nullable |-> TRUE, typeExpr |-> e.parameters[1]]
     ELSE [nullable |-> FALSE, typeExpr |-> e]

\* getColumnType up to its call of getColumnType1: the branch taken and the
\* expression both getColumnType1 and getForeignKeyRef are given
getColumnTypeCall(typeExpr) ==
  IF IsNullableWrapper(decodeTypeExpr(typeExpr))
  THEN [nullable |-> TRUE, typeExpr |-> typeExpr.parameters[1]]
  ELSE [nullable |-> FALSE, typeExpr |-> typeExpr]

\* getColumnTypeResult with "not null" appended in the nullable branch too
getColumnTypeResult_AlwaysNotNull(c, sqltype) ==
  [sqltype |-> <<sqltype, "not null">>,
   fkey |-> getForeignKeyRef(c.typeExpr)]

\* the object getColumnType returns once getColumnType1 has returned sqltype
getColumnTypeResult(c, sqltype) ==
  [sqltype |-> IF c.nullable THEN <<sqltype>> ELSE <<sqltype, "not null">>,
   fkey |-> getForeignKeyRef(c.typeExpr)]

(***************************************************************************)
(* generateSqlSchema (lines 46-163)                                        *)
(***************************************************************************)
\* decimal digits of a natural number, as characters
RECURSIVE Digits(_)
Digits(n) == IF n < 10 THEN <<ToString(n)>> ELSE Digits(n \div 10) \o <<ToString(n % 10)>>

\* the test of lines 59-62
IsDbTable(scopedDecl) ==
  /\ scopedDecl.decl.type_.kind = "struct_"
  /\ getAnnotation(scopedDecl.decl.annotations, "DB_TABLE") # Undefined

\* the entry pushed at line 64
DbTableEntry(scopedDecl) ==
  [scopedDecl |-> scopedDecl,
   struct |-> scopedDecl.decl.type_,
   ann |-> getAnnotation(scopedDecl.decl.annotations, "DB_TABLE")[1],
   name |-> getTableName(scopedDecl)]

\* Array.prototype.sort with the comparator of line 68 (a stable sort):
\* each element goes behind the elements that are not greater than it
InsertByName(sorted, t) ==
  LET k == Cardinality({i \in 1..Len(sorted) : ~StringLess(t.name, sorted[i].name)})
  IN SubSeq(sorted, 1, k) \o <<t>> \o SubSeq(sorted, k+1, Len(sorted))

RECURSIVE SortLoop(_, _)
SortLoop(sorted, rest) ==
  IF rest = <<>> THEN sorted
  ELSE SortLoop(InsertByName(sorted, Head(rest)), Tail(rest))

\* sortByName leaving the tables as collected
sortByName_Unsorted(tables) == tables

sortByName(tables) == SortLoop(<<>>, tables)

\* lines 58-68
collectDbTables(modules) ==
  LET found == SelectSeq(forEachDecl(modules), IsDbTable)
  IN sortByName([i \in 1..Len(found) |-> DbTableEntry(found[i])])

\* line 72: the distinct module names, in order of first occurrence
RECURSIVE moduleNamesOf(_)
moduleNamesOf(tables) ==
  IF tables = <<>> THEN <<>>
  ELSE LET front == moduleNamesOf(SubSeq(tables, 1, Len(tables) - 1))
           mn == tables[Len(tables)].scopedDecl.moduleName
       IN IF \E i \in 1..Len(front) : front[i] = mn THEN front ELSE Append(front, mn)

\* lines 105-112
findColName(t, s) ==
  LET fields == t.struct.value.fields
  IN IF \E i \in 1..Len(fields) : fields[i].name = s
     THEN getColumnName(fields[CHOOSE i \in 1..Len(fields) :
                                 /\ fields[i].name = s
                                 /\ \A j \in 1..(i-1) : fields[j].name # s])
     ELSE s

ColNames(t, group) == [i \in 1..Len(group) |-> findColName(t, group[i])]

\* foreignKeyConstraint naming the constraint after the referenced table
foreignKeyConstraint_TargetName(t, columnName, fkey) ==
  [kind |-> "foreign key", table |-> t.name,
   name |-> fkey.table \o <<"_">> \o columnName \o <<"_","f","k">>,
   cols |-> <<columnName>>,
   refTable |-> fkey.table, refColumn |-> fkey.column]

\* the statement of line 101
foreignKeyConstraint(t, columnName, fkey) ==
  [kind |-> "foreign key", table |-> t.name,
   name |-> t.name \o <<"_">> \o columnName \o <<"_","f","k">>,
   cols |-> <<columnName>>,
   refTable |-> fkey.table, refColumn |-> fkey.column]

\* the statements of lines 114-117
indexConstraints(t) ==
  [i \in 1..Len(t.ann.indexes) |->
     [kind |-> "create index", table |-> t.name,
      name |-> t.name \o <<"_">> \o Digits(i) \o <<"_","i","d","x">>,
      cols |-> ColNames(t, t.ann.indexes[i])]]

\* the statements of lines 118-121
uniquenessConstraints(t) ==
  [i \in 1..Len(t.ann.uniquenessConstraints) |->
     [kind |-> "unique", table |-> t.name,
      name |-> t.name \o <<"_">> \o Digits(i) \o <<"_","c","o","n">>,
      cols |-> ColNames(t, t.ann.uniquenessConstraints[i])]]

\* tableConstraints with the two loops in the other order
tableConstraints_UniqueFirst(t) == uniquenessConstraints(t) \o indexConstraints(t)

\* lines 114-121: what the table adds to constraints after its columns
tableConstraints(t) == indexConstraints(t) \o uniquenessConstraints(t)

\* lines 122-127
primaryKeyLines(t) ==
  IF t.ann.withIdPrimaryKey
  THEN << [kind |-> "primary key", cols |-> << <<"i","d">> >>] >>
  ELSE IF Len(t.ann.withPrimaryKey) > 0
  THEN << [kind |-> "primary key", cols |-> ColNames(t, t.ann.withPrimaryKey)] >>
  ELSE <<>>

\* lines 130-143: the blank line and the create table block
createTable(t, ls) ==
  << [kind |-> "blank"],
     [kind |-> "create table", table |-> t.name,
      lines |-> [i \in 1..Len(ls) |-> [code |-> ls[i], comma |-> i < Len(ls)]]] >>

\* lines 160-162: what the loop writes for allExtraSql
extraSqlLines(sqls) ==
  [i \in 1..Len(sqls) |-> [kind |-> "sql", text |-> ToString(i - 1)]]

\* lines 147-162
tail(cs, sqls) ==
  (IF Len(cs) > 0 THEN << [kind |-> "blank"] >> ELSE <<>>)
  \o cs
  \o (IF Len(sqls) > 0 THEN << [kind |-> "blank"] >> ELSE <<>>)
  \o extraSqlLines(sqls)

Init ==
  /\ \E a \in AnnChoicesAa, b \in AnnChoicesBa, c \in AnnChoicesAaBa, p \in 1..Len(ProbeTypes),
        mFirst \in BOOLEAN, aaFirst \in BOOLEAN :
        loadedAdl = LoadedAdl(a, b, c, ProbeTypes[p], mFirst, aaFirst)
  /\ dbProfile \in DbProfiles
  /\ pc = "start"
  /\ dbTables = <<>>
  /\ constraints = <<>>
  /\ allExtraSql = <<>>
  /\ out = <<>>
  /\ tIdx = 1
  /\ lines = <<>>
  /\ fIdx = 1
  /\ f = Undefined
  /\ columnType = Undefined
  /\ call = Undefined
  /\ frames = <<>>

\* lines 48-79: load, collect and sort the tables, write the header
CollectTables ==
  /\ pc = "start"
  /\ dbTables' = collectDbTables(loadedAdl.modules)
  /\ out' = << [kind |-> "header", modules |-> moduleNamesOf(dbTables')],
               [kind |-> "comment"], [kind |-> "comment"] >>
  /\ pc' = IF dbTables' = <<>> THEN "tail" ELSE "table"
  /\ UNCHANGED <<loadedAdl, dbProfile, constraints, allExtraSql, tIdx, lines,
                 fIdx, f, columnType, call, frames>>

\* lines 82-92: start of an iteration of the table loop
BeginTable ==
  /\ pc = "table"
  /\ lines' = IF dbTables[tIdx].ann.withIdPrimaryKey
              THEN << [kind |-> "column", name |-> <<"i","d">>,
                       sqltype |-> <<idColumnType(dbProfile), "not null">>] >>
              ELSE <<>>
  /\ fIdx' = 1
  /\ pc' = "field"
  /\ UNCHANGED <<loadedAdl, dbProfile, dbTables, constraints, allExtraSql, out,
                 tIdx, f, columnType, call, frames>>

\* lines 93-95 and 196-211: getColumnType is entered and calls getColumnType1
GetColumnType ==
  /\ pc = "field"
  /\ fIdx <= Len(dbTables[tIdx].struct.value.fields)
  /\ f' = << dbTables[tIdx].struct.value.fields[fIdx] >>
  /\ call' = << getColumnTypeCall(f'[1].typeExpr) >>
  /\ frames' = << call'[1].typeExpr >>
  /\ columnType' = Undefined
  /\ pc' = "getColumnType1"
  /\ UNCHANGED <<loadedAdl, dbProfile, dbTables, constraints, allExtraSql, out,
                 tIdx, lines, fIdx>>

\* line 236: getColumnType1 calls itself with the expanded expression
GetColumnType1Recurse ==
  /\ pc = "getColumnType1"
  /\ Len(frames) < MaxDepth
  /\ LET r == getColumnType1(frames[Len(frames)], dbProfile)
     IN /\ r.kind = "call"
        /\ frames' = Append(frames, r.typeExpr)
  /\ UNCHANGED <<loadedAdl, dbProfile, pc, dbTables, constraints, allExtraSql, out,
                 tIdx, lines, fIdx, f, columnType, call>>

\* getColumnType1 returns through all its frames, getColumnType returns,
\* and the loop body goes on (lines 96-102)
GetColumnType1Return ==
  /\ pc = "getColumnType1"
  /\ LET r == getColumnType1(frames[Len(frames)], dbProfile)
         t == dbTables[tIdx]
         columnName == getColumnName(f[1])
     IN /\ r.kind = "return"
        /\ columnType' = << getColumnTypeResult(call[1], r.sqltype) >>
        /\ lines' = Append(lines, [kind |-> "column", name |-> columnName,
                                   sqltype |-> columnType'[1].sqltype])
        /\ constraints' =
             IF columnType'[1].fkey # Undefined
             THEN Append(constraints, foreignKeyConstraint(t, columnName, columnType'[1].fkey[1]))
             ELSE constraints
  /\ frames' = <<>>
  /\ call' = Undefined
  /\ fIdx' = fIdx + 1
  /\ pc' = "field"
  /\ UNCHANGED <<loadedAdl, dbProfile, dbTables, allExtraSql, out, tIdx, f>>

\* lines 114-144: the rest of the iteration once the fields are done
EndTable ==
  /\ pc = "field"
  /\ fIdx > Len(dbTables[tIdx].struct.value.fields)
  /\ LET t == dbTables[tIdx]
     IN /\ constraints' = constraints \o tableConstraints(t)
        /\ out' = out \o createTable(t, lines \o primaryKeyLines(t))
        /\ allExtraSql' = allExtraSql \o t.ann.extraSql
  /\ lines' = <<>>
  /\ tIdx' = tIdx + 1
  /\ pc' = IF tIdx = Len(dbTables) THEN "tail" ELSE "table"
  /\ UNCHANGED <<loadedAdl, dbProfile, dbTables, fIdx, f, columnType, call, frames>>

\* lines 147-162: the constraints and the trailing sql are written
WriteTail ==
  /\ pc = "tail"
  /\ out' = out \o tail(constraints, allExtraSql)
  /\ pc' = "done"
  /\ UNCHANGED <<loadedAdl, dbProfile, dbTables, constraints, allExtraSql,
                 tIdx, lines, fIdx, f, columnType, call, frames>>

Next ==
  \/ CollectTables
  \/ BeginTable
  \/ GetColumnType
  \/ GetColumnType1Recurse
  \/ GetColumnType1Return
  \/ EndTable
  \/ WriteTail

Spec == Init /\ [][Next]_vars

(***************************************************************************)
(* Vocabulary of the properties                                            *)
(***************************************************************************)
RECURSIVE SameTypeExpr(_, _)
SameTypeExpr(a, b) ==
  /\ a.typeRef.kind = b.typeRef.kind
  /\ a.typeRef.value = b.typeRef.value
  /\ Len(a.parameters) = Len(b.parameters)
  /\ \A i \in 1..Len(a.parameters) : SameTypeExpr(a.parameters[i], b.parameters[i])

RECURSIVE Flatten(_)
Flatten(ss) == IF ss = <<>> THEN <<>> ELSE Head(ss) \o Flatten(Tail(ss))

\* getColumnType has returned for the field f
Mapped == columnType # Undefined
Done == pc = "done"

IsPrimitive(te, p) == te.typeRef.kind = "primitive" /\ te.typeRef.value = p
IsReferenceTo(te, sn) == te.typeRef.kind = "reference" /\ te.typeRef.value = sn

\* the expression is Nullable<T> or sys.types.Maybe<T>
TopLevelNullable(te) == IsPrimitive(te, "Nullable") \/ IsReferenceTo(te, MAYBE)

\* the expression with its top level nullable wrapper taken off
BaseExpr(te) == IF TopLevelNullable(te) THEN te.parameters[1] ELSE te

EndsNotNull(sqltype) == sqltype[Len(sqltype)] = "not null"

\* the expression is DbKey<T> with T a reference
IsDbKeyOfRef(te) ==
  /\ IsReferenceTo(te, DB_KEY)
  /\ Len(te.parameters) = 1
  /\ te.parameters[1].typeRef.kind = "reference"

\* the declaration T of DbKey<T>
KeyTarget(te) == resolver(te.parameters[1].typeRef.value)

\* the foreign key target of a field type: <<>> or <<table name>>
FkTarget(te) ==
  IF IsDbKeyOfRef(BaseExpr(te)) THEN << getTableName(KeyTarget(BaseExpr(te))) >> ELSE <<>>

IsTemporalName(sn) == sn = INSTANT \/ sn = LOCAL_DATE \/ sn = LOCAL_DATETIME

\* the declaration kind a reference resolves to, "" for other expressions
RefDeclKind(te) ==
  IF te.typeRef.kind = "reference" THEN resolver(te.typeRef.value).decl.type_.kind ELSE ""

IsAliasOrNewtypeRef(te) == RefDeclKind(te) \in {"type_", "newtype_"}

\* <<P>> if te is P, or an alias/newtype chain of at most n links, none of
\* them named as a temporal type, that ends in the primitive P; else <<>>
RECURSIVE ChainPrim(_, _)
ChainPrim(te, n) ==
  IF te.typeRef.kind = "primitive" THEN << te.typeRef.value >>
  ELSE IF n = 0 \/ ~IsAliasOrNewtypeRef(te) \/ IsTemporalName(te.typeRef.value) THEN <<>>
  ELSE ChainPrim(expandKind(te, RefDeclKind(te))[1], n - 1)

\* the column type each profile gives what it has no mapping for
DefaultOpaque(profile) ==
  CASE profile = "postgresDbProfile"  -> "json"
    [] profile = "postgres2DbProfile" -> "jsonb"
    [] profile = "mssql2DbProfile"    -> "nvarchar(max)"

KindIdx(k) == {i \in 1..Len(out) : out[i].kind = k}

IsStatement(w) ==
  w.kind \in {"create table", "foreign key", "create index", "unique", "sql"}
IsForeignKey(w) == w.kind = "foreign key"
IsCreateTable(w) == w.kind = "create table"
IsSql(w) == w.kind = "sql"

\* the foreign key statements a table's columns call for, in field order
RECURSIVE ExpectedFksFrom(_, _)
ExpectedFksFrom(t, i) ==
  LET fields == t.struct.value.fields
  IN IF i > Len(fields) THEN <<>>
     ELSE LET col == getColumnName(fields[i])
              target == FkTarget(fields[i].typeExpr)
          IN (IF target = <<>> THEN <<>>
              ELSE << [kind |-> "foreign key", table |-> t.name,
                       name |-> t.name \o <<"_">> \o col \o <<"_","f","k">>,
                       cols |-> <<col>>,
                       refTable |-> target[1], refColumn |-> <<"i","d">>] >>)
             \o ExpectedFksFrom(t, i + 1)

ExpectedFks == Flatten([i \in 1..Len(dbTables) |-> ExpectedFksFrom(dbTables[i], 1)])

\* kind and table of a written statement
Shape(w) == IF w.kind = "sql" THEN [kind |-> "sql"] ELSE [kind |-> w.kind, table |-> w.table]

Shapes(ws) == [i \in 1..Len(ws) |-> Shape(ws[i])]

Repeat(n, x) == [i \in 1..n |-> x]

\* per table: its foreign keys, then its indexes, then its uniqueness constraints
ExpectedConstraintShapes(t) ==
  Shapes(ExpectedFksFrom(t, 1))
  \o Repeat(Len(t.ann.indexes), [kind |-> "create index", table |-> t.name])
  \o Repeat(Len(t.ann.uniquenessConstraints), [kind |-> "unique", table |-> t.name])

ExpectedExtraSql == Flatten([i \in 1..Len(dbTables) |-> dbTables[i].ann.extraSql])

ExpectedShapes ==
  [i \in 1..Len(dbTables) |-> [kind |-> "create table", table |-> dbTables[i].name]]
  \o Flatten([i \in 1..Len(dbTables) |-> ExpectedConstraintShapes(dbTables[i])])
  \o Repeat(Len(ExpectedExtraSql), [kind |-> "sql"])

\* position of a statement kind in the order tables, foreign keys, indexes,
\* uniqueness constraints, trailing sql
GlobalRank(k) ==
  CASE k = "create table" -> 1
    [] k = "foreign key"  -> 2
    [] k = "create index" -> 3
    [] k = "unique"       -> 4
    [] k = "sql"          -> 5

\* the derived names of the table declarations of the graph, as a set
TableDeclIdx ==
  {i \in 1..Len(forEachDecl(loadedAdl.modules)) : IsDbTable(forEachDecl(loadedAdl.modules)[i])}
TableNames == {getTableName(forEachDecl(loadedAdl.modules)[i]) : i \in TableDeclIdx}
NamesDistinct == Cardinality(TableNames) = Cardinality(TableDeclIdx)

\* the names of a set in ascending order
RECURSIVE Ascending(_)
Ascending(S) ==
  IF S = {} THEN <<>>
  ELSE LET m == CHOOSE x \in S : \A y \in S : ~StringLess(y, x)
       IN <<m>> \o Ascending(S \ {m})

CreatedTables == LET cs == SelectSeq(out, IsCreateTable) IN [i \in 1..Len(cs) |-> cs[i].table]

(***************************************************************************)
(* Properties                                                              *)
(***************************************************************************)

\* C1: the column type getColumnType returns ends in "not null" exactly when
\* the field's top level expression is neither Nullable<T> nor Maybe<T>.
C1_NotNullIffNotWrapped ==
  Mapped => (EndsNotNull(columnType[1].sqltype) <=> ~TopLevelNullable(f[1].typeExpr))

\* a nullable wrapped column has just been mapped, behind a bare one that
\* got "not null"
C1_Witness ==
  /\ Mapped
  /\ pc = "field"
  /\ Len(lines) >= 2
  /\ TopLevelNullable(f[1].typeExpr)
  /\ ~EndsNotNull(lines[Len(lines)].sqltype)
  /\ EndsNotNull(lines[Len(lines) - 1].sqltype)

\* C2: when getColumnType returns for a field of type Nullable<DbKey<T>> or
\* Maybe<DbKey<T>>, the column type has no "not null", the foreign key target
\* is {table of T, "id"}, the target a field of type DbKey<T> gets, and
\* exactly one foreign key statement, for this column, is added.
C2_NullableForeignKey ==
  [][ (pc = "getColumnType1" /\ pc' = "field"
       /\ TopLevelNullable(f[1].typeExpr) /\ IsDbKeyOfRef(BaseExpr(f[1].typeExpr)))
      => LET te == f[1].typeExpr
             target == [table |-> getTableName(KeyTarget(BaseExpr(te))),
                        column |-> <<"i","d">>]
         IN /\ ~EndsNotNull(columnType'[1].sqltype)
            /\ columnType'[1].fkey = <<target>>
            /\ columnType'[1].fkey
                 = getColumnTypeResult(getColumnTypeCall(BaseExpr(te)), "").fkey
            /\ Len(constraints') = Len(constraints) + 1
            /\ constraints'[Len(constraints')].kind = "foreign key"
            /\ constraints'[Len(constraints')].cols = << getColumnName(f[1]) >>
            /\ constraints'[Len(constraints')].refTable = target.table
            /\ constraints'[Len(constraints')].refColumn = target.column ]_vars

\* a Maybe<DbKey<T>> column has been mapped: nullable, with its foreign key
C2_Witness ==
  /\ Mapped
  /\ pc = "field"
  /\ IsReferenceTo(f[1].typeExpr, MAYBE)
  /\ IsDbKeyOfRef(BaseExpr(f[1].typeExpr))
  /\ columnType[1].fkey # Undefined
  /\ ~EndsNotNull(columnType[1].sqltype)
  /\ constraints # <<>>
  /\ constraints[Len(constraints)].kind = "foreign key"

\* C3 as stated: the statements are grouped globally, all create table
\* blocks, then all foreign keys, then all indexes, then all uniqueness
\* constraints, then the trailing sql.
C3_GlobalGrouping ==
  Done => \A i, j \in 1..Len(out) :
            (i < j /\ IsStatement(out[i]) /\ IsStatement(out[j]))
            => GlobalRank(out[i].kind) <= GlobalRank(out[j].kind)

\* C3 amended: all create table blocks in table order, then for each table
\* in table order its foreign keys, its indexes and its uniqueness
\* constraints, then the trailing sql lines.
C3_PerTableGrouping ==
  Done => Shapes(SelectSeq(out, IsStatement)) = ExpectedShapes

\* an index or uniqueness statement of one table is written before a foreign
\* key statement of a later table
C3_Witness ==
  /\ Done
  /\ \E i, j \in 1..Len(out) :
        /\ i < j
        /\ out[i].kind \in {"create index", "unique"}
        /\ out[j].kind = "foreign key"
        /\ out[i].table # out[j].table

\* C4: the trailing sql lines written are the extraSql strings of the
\* tables, in table order and annotation order.
C4_ExtraSqlVerbatim ==
  Done => LET ws == SelectSeq(out, IsSql)
          IN [i \in 1..Len(ws) |-> ws[i].text] = ExpectedExtraSql

\* C5: the reduction terminates: getColumnType1 is never entered with a type
\* expression it is already reducing (from there on the same expansions
\* would repeat without end) but stops with an error.
C5_ReductionTerminates ==
  \A i, j \in 1..Len(frames) : i < j => ~SameTypeExpr(frames[i], frames[j])

\* C6: a column has a foreign key target only if its base expression is
\* DbKey<T> with T a struct carrying the DbTable annotation, and every foreign
\* key statement written references a table that was created.
C6_ForeignKeyToTableOnly ==
  /\ (Mapped /\ columnType[1].fkey # Undefined)
       => /\ IsDbKeyOfRef(BaseExpr(f[1].typeExpr))
          /\ IsDbTable(KeyTarget(BaseExpr(f[1].typeExpr)))
  /\ Done => \A i \in KindIdx("foreign key") :
               \E j \in KindIdx("create table") : out[j].table = out[i].refTable

\* C7 as stated: the create table blocks are in strictly ascending order of
\* table name, for every set of table declarations.
C7_StrictlyAscending ==
  \A i, j \in KindIdx("create table") : i < j => StringLess(out[i].table, out[j].table)

\* C7 amended: the create table blocks are in ascending order of table name,
\* and when the derived names are pairwise distinct the order is strictly
\* ascending and the sequence written is the one the set of names determines,
\* whatever the order of the declarations.
C7_Ascending ==
  /\ \A i, j \in KindIdx("create table") : i < j => ~StringLess(out[j].table, out[i].table)
  /\ (Done /\ NamesDistinct)
       => /\ CreatedTables = Ascending(TableNames)
          /\ \A i, j \in KindIdx("create table") :
                i < j => StringLess(out[i].table, out[j].table)

\* three tables with distinct names were written, and the loader had not
\* enumerated them in name order
C7_Witness ==
  /\ Done
  /\ NamesDistinct
  /\ Len(CreatedTables) = 3
  /\ LET sds == forEachDecl(loadedAdl.modules)
         first == CHOOSE i \in TableDeclIdx : \A j \in TableDeclIdx : i <= j
     IN getTableName(sds[first]) # CreatedTables[1]

\* C8: every foreign key statement comes after every create table block, and
\* the foreign key statements written are, in table and field order, one per
\* column with a foreign key target, named <table>_<column>_fk and
\* referencing <target table>(id).
C8_ForeignKeysAfterTables ==
  Done => /\ \A i \in KindIdx("foreign key"), j \in KindIdx("create table") : j < i
          /\ SelectSeq(out, IsForeignKey) = ExpectedFks

\* foreign keys were written from a table to one that sorts behind it, to
\* one that sorts before it, and to itself
C8_Witness ==
  /\ Done
  /\ \E i \in KindIdx("foreign key") : StringLess(out[i].table, out[i].refTable)
  /\ \E i \in KindIdx("foreign key") : StringLess(out[i].refTable, out[i].table)
  /\ \E i \in KindIdx("foreign key") : out[i].refTable = out[i].table

\* C9: for an expression that is a reference to an alias or newtype chain
\* ending in a primitive P, no link named as a temporal type, getColumnType1
\* returns primColumnType(P) of the profile.
C9_ExpansionTransparent ==
  (Mapped /\ IsAliasOrNewtypeRef(BaseExpr(f[1].typeExpr))
          /\ ChainPrim(BaseExpr(f[1].typeExpr), MaxDepth) # <<>>)
    => columnType[1].sqltype[1]
         = primColumnType(dbProfile, ChainPrim(BaseExpr(f[1].typeExpr), MaxDepth)[1])

\* a field whose type is an alias of an alias of String was mapped to the
\* profile's column type of String
C9_Witness ==
  /\ Mapped
  /\ SameTypeExpr(f[1].typeExpr, Ref(T(N_Name2)))
  /\ dbProfile = "mssql2DbProfile"
  /\ columnType[1].sqltype = <<"nvarchar(max)", "not null">>

\* the underlying expression of the alias or newtype a field type refers to
Underlying(te) == resolver(te.typeRef.value).decl.type_.value.typeExpr

\* C10: for a field whose type is a reference to an alias or newtype whose
\* underlying expression is Nullable<T>, Maybe<T> or DbKey<T>, the column
\* type ends in "not null" and there is no foreign key target; when the
\* underlying expression is a nullable wrapper the column type is the
\* profile's default opaque type.
C10_TopLevelOnly ==
  (Mapped /\ IsAliasOrNewtypeRef(f[1].typeExpr)
          /\ (TopLevelNullable(Underlying(f[1].typeExpr))
              \/ IsReferenceTo(Underlying(f[1].typeExpr), DB_KEY)))
    => /\ EndsNotNull(columnType[1].sqltype)
       /\ columnType[1].fkey = Undefined
       /\ TopLevelNullable(Underlying(f[1].typeExpr))
            => columnType[1].sqltype = <<DefaultOpaque(dbProfile), "not null">>

\* a field whose type is an alias of Nullable<String> was mapped to the
\* default opaque type, not null, where String itself maps to text
C10_Witness ==
  /\ Mapped
  /\ SameTypeExpr(f[1].typeExpr, Ref(T(N_OptStr)))
  /\ dbProfile = "postgres2DbProfile"
  /\ columnType[1] = [sqltype |-> <<"jsonb", "not null">>, fkey |-> Undefined]

====
